---- MODULE Spec2Model ----
(***************************************************************************)
(* A model of robo-demo's coordinator.  src/server.js holds two server     *)
(* generations: v3 (lines 1-541, tasks delegated to the browser through a  *)
(* command queue keyed by a correlation id) and v2 (lines 543-1023, the    *)
(* low-level joint tools).  src/unnamed/part_000 is the plan of the        *)
(* server-side task executor (executeTask).  A run of the model is a run   *)
(* of one of the three, chosen in Init.                                    *)
(***************************************************************************)
EXTENDS Integers, Sequences, FiniteSets, TLC

VARIABLES
    version,      \* which program runs: "v3", "v2" or "plan"
    armState,     \* the in-memory armState object
    persisted,    \* the content of state.json
    calls,        \* one record per MCP tools/call request: its position and locals
    nextUUID,     \* the next value randomUUID() returns
    seenIds,      \* the command ids the browser has read from GET /api/state
    currentTask,  \* the plan's task slot
    motionCompleteResolve,  \* the call whose waitForMotionComplete promise the resolver settles
    attachmentResolve,      \* the call whose waitForAttachment promise the resolver settles
    unreported,   \* the motion commands whose completion the browser has yet to report
    ik,           \* a call of solveIK: its targetPos and what it returned
    uiClients,    \* v2: the connected UI clients (SSE responses)
    pendingScreenshots,  \* v2: the request ids that have an entry in the map
    timers,       \* v2: the request ids whose 10 s timeout is armed
    reply,        \* v2: what the last request that was answered at once got back
    broadcast     \* v2: the commands that request passed to broadcastCommand

\* the variables only the low-level server (v2) writes
lowLevel == <<uiClients, pendingScreenshots, timers, reply, broadcast>>

vars == <<version, armState, persisted, calls, nextUUID, seenIds, currentTask,
          motionCompleteResolve, attachmentResolve, unreported, ik, lowLevel>>

(***************************************************************************)
(* Bounds of the model.                                                    *)
(***************************************************************************)
\* MCP tools/call requests in one run
MaxCalls == 2

Calls == 1..MaxCalls

(***************************************************************************)
(* Values.                                                                 *)
(***************************************************************************)
\* JavaScript's null, for a slot that otherwise holds an object
NULL == [null |-> TRUE]
\* JavaScript's null, for a slot that otherwise holds a string
NoObject == "null"

\* server.js:61-68
jointLimits ==
    << <<-180, 180>>, <<-90, 90>>, <<-135, 135>>,
       <<-180, 180>>, <<-90, 90>>, <<-180, 180>> >>

\* positions in millimetres
Pos(x, y, z) == [x |-> x, y |-> y, z |-> z]

\* server.js:25-36
defaultState ==
    [ jointTargets   |-> <<0, 0, 0, 0, 0, 0>>,
      magnetOn       |-> FALSE,
      attachedObject |-> NoObject,
      objects        |-> << [id |-> "cube1",     position |-> Pos(400, 25, 300)],
                            [id |-> "cube2",     position |-> Pos(-300, 25, 400)],
                            [id |-> "cylinder1", position |-> Pos(250, 30, -350)] >>,
      pendingCommand |-> NULL,
      commandResult  |-> NULL ]

\* server.js:221-223
ASYNC_TOOLS ==
    {"pick_object", "carry_to", "place_object", "dance", "reset_to_base", "take_screenshot"}

\* the tools the modelled requests name
ToolInputs == {"pick_object"}

\* an id randomUUID() never returned in the run
UnknownId == MaxCalls + 1

\* what the browser posts to /api/command-result besides the commandId: a
\* result that carries joint targets, and one that carries the magnet and the
\* held object
ResultPayloads ==
    { [success |-> TRUE, message |-> "Moved", jointTargets |-> <<200, 0, 0, 0, 0, 0>>],
      [success |-> TRUE, message |-> "Picked up cube1", magnetOn |-> TRUE,
       attachedObject |-> "cube1"] }

\* the resolver variables hold null when no promise is registered
NoResolver == 0

\* a request that has not arrived.  pc, commandId, name, polled and response
\* are the locals of the call; params, at, step are the task's arguments and
\* its position inside the task function; issued lists the commands the
\* task has sent to the browser.  afterTimeout only records history: that
\* the call arrived after a timeout.
IdleCall == [pc |-> "idle", commandId |-> 0, name |-> "", polled |-> FALSE,
             response |-> NULL, afterTimeout |-> FALSE,
             params |-> NULL, at |-> "", step |-> 0, issued |-> <<>>]

Init ==
    /\ version \in {"v3", "v2", "plan"}
    /\ armState = defaultState
    /\ persisted = defaultState
    /\ calls = [c \in Calls |-> IdleCall]
    /\ nextUUID = 1
    /\ seenIds = {}
    /\ currentTask = NULL
    /\ motionCompleteResolve = NoResolver
    /\ attachmentResolve = NoResolver
    /\ unreported = 0
    /\ ik = NULL
    /\ uiClients = {}
    /\ pendingScreenshots = {}
    /\ timers = {}
    /\ reply = NULL
    /\ broadcast = <<>>

(***************************************************************************)
(* v3: the command queue.                                                  *)
(***************************************************************************)
\* requests are numbered in the order they arrive
MayArrive(c) ==
    calls[c].pc = "idle" /\ (IF c = 1 THEN TRUE ELSE calls[c - 1].pc # "idle")

\* what executeViaCommandQueue returns when timeoutMs has passed
TimeoutResult == [success |-> FALSE, error |-> "Command timeout - is a browser tab open?"]

\* the JSON-RPC response handleMcpMessage wraps a tool result into
ToolResponse(result) ==
    IF "imageData" \in DOMAIN result
    THEN [kind |-> "result", type |-> "image", data |-> result.imageData]
    ELSE [kind |-> "result", type |-> "text", text |-> result]

\* the call has returned the timeout failure
TimedOut(c) ==
    /\ version = "v3"
    /\ calls[c].pc = "returned"
    /\ calls[c].response = ToolResponse(TimeoutResult)

\* handleMcpMessage, tools/call of an async tool, up to the first await:
\* executeViaCommandQueue writes the pending command and clears the result
McpToolsCall(c, name) ==
    /\ version = "v3"
    /\ MayArrive(c)
    /\ name \in ASYNC_TOOLS
    /\ armState' = [armState EXCEPT
            !.pendingCommand = [id |-> nextUUID, tool |-> name],
            !.commandResult = NULL]
    /\ persisted' = armState'
    /\ calls' = [calls EXCEPT ![c] =
            [IdleCall EXCEPT !.pc = "waiting", !.commandId = nextUUID, !.name = name,
                             !.afterTimeout = \E d \in Calls : TimedOut(d)]]
    /\ nextUUID' = nextUUID + 1
    /\ UNCHANGED <<version, ik, lowLevel, seenIds, currentTask,
                   motionCompleteResolve, attachmentResolve, unreported>>

\* ResultMatches without the comparison of the ids
ResultMatchesAnyId(c) == armState.commandResult # NULL

\* the test of the polling loop
ResultMatches(c) ==
    /\ armState.commandResult # NULL
    /\ armState.commandResult.commandId = calls[c].commandId

\* Poll without the clearing of commandResult
PollKeepsResult(c) ==
    /\ version = "v3"
    /\ calls[c].pc = "waiting"
    /\ IF ResultMatches(c)
       THEN /\ armState' = [armState EXCEPT !.pendingCommand = NULL]
            /\ persisted' = armState'
            /\ calls' = [calls EXCEPT ![c].pc = "returned",
                                      ![c].polled = TRUE,
                                      ![c].response = ToolResponse(armState.commandResult)]
       ELSE /\ calls' = [calls EXCEPT ![c].polled = TRUE]
            /\ UNCHANGED <<armState, persisted>>
    /\ UNCHANGED <<version, ik, lowLevel, nextUUID, seenIds, currentTask,
                   motionCompleteResolve, attachmentResolve, unreported>>

\* one turn of the polling loop, entered while Date.now() - startTime < timeoutMs:
\* sleep(200), then look at commandResult
Poll(c) ==
    /\ version = "v3"
    /\ calls[c].pc = "waiting"
    /\ IF ResultMatches(c)
       THEN /\ armState' = [armState EXCEPT !.pendingCommand = NULL,
                                            !.commandResult = NULL]
            /\ persisted' = armState'
            /\ calls' = [calls EXCEPT ![c].pc = "returned",
                                      ![c].polled = TRUE,
                                      ![c].response = ToolResponse(armState.commandResult)]
       ELSE /\ calls' = [calls EXCEPT ![c].polled = TRUE]
            /\ UNCHANGED <<armState, persisted>>
    /\ UNCHANGED <<version, ik, lowLevel, nextUUID, seenIds, currentTask,
                   motionCompleteResolve, attachmentResolve, unreported>>

\* Timeout without the clearing of the slot
TimeoutKeepsSlot(c) ==
    /\ version = "v3"
    /\ calls[c].pc = "waiting"
    /\ calls[c].polled
    /\ calls' = [calls EXCEPT ![c].pc = "returned",
                              ![c].response = ToolResponse(TimeoutResult)]
    /\ UNCHANGED <<version, ik, lowLevel, armState, persisted, nextUUID, seenIds, currentTask,
                   motionCompleteResolve, attachmentResolve, unreported>>

\* a polling loop without the time test
TimeoutNever(c) ==
    /\ FALSE
    /\ UNCHANGED vars

\* the loop's time test fails, which it cannot do before the first turn (the
\* test is first made right after startTime is read): the slot is cleared and
\* the failure returned
Timeout(c) ==
    /\ version = "v3"
    /\ calls[c].pc = "waiting"
    /\ calls[c].polled
    /\ armState' = [armState EXCEPT !.pendingCommand = NULL]
    /\ persisted' = armState'
    /\ calls' = [calls EXCEPT ![c].pc = "returned",
                              ![c].response = ToolResponse(TimeoutResult)]
    /\ UNCHANGED <<version, ik, lowLevel, nextUUID, seenIds, currentTask,
                   motionCompleteResolve, attachmentResolve, unreported>>

\* GET /api/state: the browser learns the pending command
GetState ==
    /\ version = "v3"
    /\ armState.pendingCommand # NULL
    /\ seenIds' = seenIds \cup {armState.pendingCommand.id}
    /\ UNCHANGED <<version, ik, lowLevel, armState, persisted, calls, nextUUID, currentTask,
                   motionCompleteResolve, attachmentResolve, unreported>>

\* the request bodies of POST /api/command-result: a payload under an id the
\* browser has seen or under an unknown one, or a body without commandId
CommandResultBodies ==
    { [commandId |-> i] @@ p : i \in seenIds \cup {UnknownId}, p \in ResultPayloads }
        \cup { [success |-> TRUE, message |-> "no id"] }

\* SyncFromResult that takes an absent magnetOn for false
SyncFromResultDefaults(state, result) ==
    LET s1 == IF "jointTargets" \in DOMAIN result
              THEN [state EXCEPT !.jointTargets = result.jointTargets] ELSE state
        s2 == IF "magnetOn" \in DOMAIN result
              THEN [s1 EXCEPT !.magnetOn = result.magnetOn]
              ELSE [s1 EXCEPT !.magnetOn = FALSE]
    IN  IF "attachedObject" \in DOMAIN result
        THEN [s2 EXCEPT !.attachedObject = result.attachedObject] ELSE s2

\* POST /api/command-result, the three state updates after the result is stored
SyncFromResult(state, result) ==
    LET s1 == IF "jointTargets" \in DOMAIN result
              THEN [state EXCEPT !.jointTargets = result.jointTargets] ELSE state
        s2 == IF "magnetOn" \in DOMAIN result
              THEN [s1 EXCEPT !.magnetOn = result.magnetOn] ELSE s1
    IN  IF "attachedObject" \in DOMAIN result
        THEN [s2 EXCEPT !.attachedObject = result.attachedObject] ELSE s2

\* POST /api/command-result
PostCommandResult(body) ==
    /\ version = "v3"
    /\ IF "commandId" \notin DOMAIN body
       THEN UNCHANGED <<armState, persisted>>
       ELSE /\ armState' = SyncFromResult([armState EXCEPT !.commandResult = body], body)
            /\ persisted' = armState'
    /\ UNCHANGED <<version, ik, lowLevel, calls, nextUUID, seenIds, currentTask,
                   motionCompleteResolve, attachmentResolve, unreported>>

\* armState.objects.find(o => o.id === id): the index of the first match, 0 if none
FindObject(objects, id) ==
    LET hits == {i \in 1..Len(objects) : objects[i].id = id}
    IN  IF hits = {} THEN 0 ELSE CHOOSE i \in hits : \A j \in hits : i <= j

\* the body of the forEach of POST /api/objects (v3)
UpdateObject(objects, update) ==
    LET i == FindObject(objects, update.id)
    IN  IF i = 0 THEN objects ELSE [objects EXCEPT ![i].position = update.position]

RECURSIVE UpdateObjects(_, _)
UpdateObjects(objects, updates) ==
    IF updates = <<>> THEN objects
    ELSE UpdateObjects(UpdateObject(objects, Head(updates)), Tail(updates))

\* the request bodies of POST /api/objects
ObjectsBodies ==
    { [objects |-> << [id |-> "cube1", position |-> Pos(0, 300, 0)] >>],
      [objects |-> << [id |-> "ghost", position |-> Pos(0, 300, 0)],
                      [id |-> "cube1", position |-> Pos(400, 25, 300)] >>],
      [other |-> TRUE] }

\* PostObjects without the saveState() call
PostObjectsNoSave(body) ==
    /\ version = "v3"
    /\ IF "objects" \in DOMAIN body
       THEN armState' = [armState EXCEPT !.objects = UpdateObjects(@, body.objects)]
       ELSE UNCHANGED armState
    /\ UNCHANGED <<version, ik, lowLevel, persisted, calls, nextUUID, seenIds, currentTask,
                   motionCompleteResolve, attachmentResolve, unreported>>

\* POST /api/objects (v3)
PostObjects(body) ==
    /\ version = "v3"
    /\ IF "objects" \in DOMAIN body
       THEN /\ armState' = [armState EXCEPT !.objects = UpdateObjects(@, body.objects)]
            /\ persisted' = armState'
       ELSE UNCHANGED <<armState, persisted>>
    /\ UNCHANGED <<version, ik, lowLevel, calls, nextUUID, seenIds, currentTask,
                   motionCompleteResolve, attachmentResolve, unreported>>

\* POST /api/motion-status
PostMotionStatus ==
    /\ version = "v3"
    /\ UNCHANGED vars

\* discover_objects that reports every object attached while one is held
discover_objectsAnyHeld(state) ==
    [i \in 1..Len(state.objects) |->
        [id |-> state.objects[i].id,
         position |-> state.objects[i].position,
         attached |-> state.attachedObject # NoObject]]

\* executeSyncTool, case 'discover_objects': the objects of the response
discover_objects(state) ==
    [i \in 1..Len(state.objects) |->
        [id |-> state.objects[i].id,
         position |-> state.objects[i].position,
         attached |-> state.attachedObject = state.objects[i].id]]

\* executeSyncTool: the data a sync tool returns from the server state, null
\* for any other name
executeSyncTool(name) ==
    CASE name = "discover_objects" -> [objects |-> discover_objects(armState)]
      [] name = "get_environment_info" ->
            [current_state |-> [holding_object |-> armState.attachedObject,
                                magnet_on |-> armState.magnetOn]]
      [] OTHER -> NULL

\* a tools/call message whose params carry no name
NoName == ""

\* the JSON-RPC messages of the modelled clients: tools/call of the two sync
\* tools, of a name that is no tool, without a name, and a message that is
\* not JSON-RPC 2.0
McpMessages ==
    { [jsonrpc |-> "2.0", method |-> "tools/call", name |-> n] :
          n \in {"discover_objects", "get_environment_info", "fly", NoName} }
        \cup { [jsonrpc |-> "1.0", method |-> "tools/call", name |-> "pick_object"] }

\* handleMcpMessage, method tools/call: the branch taken and what it answers
McpReply(message) ==
    IF message.jsonrpc # "2.0" THEN [error |-> "Invalid Request"]
    ELSE IF message.name = NoName THEN [error |-> "Missing tool name"]
    ELSE IF executeSyncTool(message.name) # NULL
         THEN [result |-> executeSyncTool(message.name)]
    ELSE IF message.name \in ASYNC_TOOLS THEN [queued |-> message.name]
    ELSE [error |-> "Unknown tool"]

\* handleMcpMessage for a tools/call message that does not reach the command
\* queue: the reply is computed and returned, nothing is written
handleMcpMessage(message) ==
    /\ version = "v3"
    /\ "queued" \notin DOMAIN McpReply(message)
    /\ UNCHANGED vars

\* the names of the tools in mcpTools
mcpTools ==
    {"take_screenshot", "discover_objects", "get_environment_info", "pick_object",
     "carry_to", "place_object", "dance", "reset_to_base"}

\* the tool names of the modelled REST calls: a sync tool, an async tool, no tool
RestToolNames == {"discover_objects", "pick_object", "fly"}

\* POST /api/tools/:name: the status and body of the answer
PostToolReply(name) ==
    IF name \notin mcpTools THEN [status |-> 404]
    ELSE IF executeSyncTool(name) # NULL
         THEN [status |-> 200, body |-> executeSyncTool(name)]
    ELSE [status |-> 400]

\* POST /api/tools/:name that hands an async tool to the command queue
PostToolQueues(name) ==
    /\ version = "v3"
    /\ IF PostToolReply(name).status = 400
       THEN /\ armState' = [armState EXCEPT
                    !.pendingCommand = [id |-> UnknownId, tool |-> name],
                    !.commandResult = NULL]
            /\ persisted' = armState'
       ELSE UNCHANGED <<armState, persisted>>
    /\ UNCHANGED <<version, ik, lowLevel, calls, nextUUID, seenIds, currentTask,
                   motionCompleteResolve, attachmentResolve, unreported>>

\* POST /api/tools/:name: answers from the server state, writes nothing
PostTool(name) ==
    /\ version = "v3"
    /\ PostToolReply(name).status \in {200, 400, 404}
    /\ UNCHANGED vars

\* the object ids attachment reports name
AttachmentIds == {"cube1", "ghost"}

\* PostAttachmentStatus that also switches the magnet on with an attachment
PostAttachmentStatusSetsMagnet(objectId, attached) ==
    /\ version = "v3"
    /\ armState' =
         IF attached THEN [armState EXCEPT !.attachedObject = objectId, !.magnetOn = TRUE]
         ELSE IF armState.attachedObject = objectId
              THEN [armState EXCEPT !.attachedObject = NoObject]
              ELSE armState
    /\ persisted' = armState'
    /\ UNCHANGED <<version, ik, lowLevel, calls, nextUUID, seenIds, currentTask,
                   motionCompleteResolve, attachmentResolve, unreported>>

\* PostAttachmentStatus whose detach report clears whatever object is held
PostAttachmentStatusDetachesAny(objectId, attached) ==
    /\ version = "v3"
    /\ armState' =
         IF attached THEN [armState EXCEPT !.attachedObject = objectId]
         ELSE [armState EXCEPT !.attachedObject = NoObject]
    /\ persisted' = armState'
    /\ UNCHANGED <<version, ik, lowLevel, calls, nextUUID, seenIds, currentTask,
                   motionCompleteResolve, attachmentResolve, unreported>>

\* POST /api/attachment-status
PostAttachmentStatus(objectId, attached) ==
    /\ version = "v3"
    /\ armState' =
         IF attached THEN [armState EXCEPT !.attachedObject = objectId]
         ELSE IF armState.attachedObject = objectId
              THEN [armState EXCEPT !.attachedObject = NoObject]
              ELSE armState
    /\ persisted' = armState'
    /\ UNCHANGED <<version, ik, lowLevel, calls, nextUUID, seenIds, currentTask,
                   motionCompleteResolve, attachmentResolve, unreported>>

(***************************************************************************)
(* v2: the low-level tools (executeTool).                                  *)
(***************************************************************************)
Max(a, b) == IF a >= b THEN a ELSE b
Min(a, b) == IF a <= b THEN a ELSE b

\* Math.max(limits[0], Math.min(limits[1], angle))
Clamp(i, angle) == Max(jointLimits[i][1], Min(jointLimits[i][2], angle))

\* A run of v2 exercises the joint tools or the screenshot path; the two
\* share no state of the server.  The requests handled so far were tool calls:
ToolsWorkload ==
    /\ uiClients = {}
    /\ \A c \in Calls : calls[c].pc = "idle"
    /\ reply = NULL \/ "status" \notin DOMAIN reply

\* the requests handled so far were those of the screenshot path
ScreenshotWorkload ==
    /\ armState = defaultState
    /\ reply = NULL \/ "status" \in DOMAIN reply

\* the joint indices (0-based, as in the source) and angles the requests carry
JointInputs == {-1, 1, 2, 6}
AngleInputs == {-200, 45, 200}

\* move_joint that passes the command on although the joint was refused
MoveJointAlwaysBroadcasts(joint, angle) ==
    /\ version = "v2"
    /\ ToolsWorkload
    /\ IF joint < 0 \/ joint > 5
       THEN /\ reply' = [success |-> FALSE, error |-> "Joint must be 0-5"]
            /\ broadcast' = <<[type |-> "move_joint", joint |-> joint, angle |-> angle]>>
            /\ UNCHANGED <<armState, persisted>>
       ELSE /\ armState' = [armState EXCEPT
                    !.jointTargets[joint + 1] = Clamp(joint + 1, angle)]
            /\ persisted' = armState'
            /\ broadcast' = <<[type |-> "move_joint", joint |-> joint,
                               angle |-> Clamp(joint + 1, angle)]>>
            /\ reply' = [success |-> TRUE, jointTargets |-> armState'.jointTargets]
    /\ UNCHANGED <<version, ik, uiClients, pendingScreenshots, timers, calls, nextUUID,
                   seenIds, currentTask, motionCompleteResolve, attachmentResolve,
                   unreported>>

\* executeTool, case 'move_joint'
MoveJoint(joint, angle) ==
    /\ version = "v2"
    /\ ToolsWorkload
    /\ IF joint < 0 \/ joint > 5
       THEN /\ reply' = [success |-> FALSE, error |-> "Joint must be 0-5"]
            /\ broadcast' = <<>>
            /\ UNCHANGED <<armState, persisted>>
       ELSE /\ armState' = [armState EXCEPT
                    !.jointTargets[joint + 1] = Clamp(joint + 1, angle)]
            /\ persisted' = armState'
            /\ broadcast' = <<[type |-> "move_joint", joint |-> joint,
                               angle |-> Clamp(joint + 1, angle)]>>
            /\ reply' = [success |-> TRUE, jointTargets |-> armState'.jointTargets]
    /\ UNCHANGED <<version, ik, uiClients, pendingScreenshots, timers, calls, nextUUID,
                   seenIds, currentTask, motionCompleteResolve, attachmentResolve,
                   unreported>>

\* executeTool, case 'set_magnet'
SetMagnet(enabled) ==
    /\ version = "v2"
    /\ ToolsWorkload
    /\ armState' = [armState EXCEPT !.magnetOn = enabled]
    /\ persisted' = armState'
    /\ broadcast' = <<[type |-> "set_magnet", enabled |-> enabled]>>
    /\ reply' = [success |-> TRUE, magnetOn |-> enabled]
    /\ UNCHANGED <<version, ik, uiClients, pendingScreenshots, timers, calls, nextUUID,
                   seenIds, currentTask, motionCompleteResolve, attachmentResolve,
                   unreported>>

\* executeTool, case 'reset_arm'
ResetArm ==
    /\ version = "v2"
    /\ ToolsWorkload
    /\ armState' = [armState EXCEPT !.jointTargets = <<0, 0, 0, 0, 0, 0>>,
                                    !.magnetOn = FALSE]
    /\ persisted' = armState'
    /\ broadcast' = <<[type |-> "reset_arm"]>>
    /\ reply' = [success |-> TRUE, jointTargets |-> armState'.jointTargets]
    /\ UNCHANGED <<version, ik, uiClients, pendingScreenshots, timers, calls, nextUUID,
                   seenIds, currentTask, motionCompleteResolve, attachmentResolve,
                   unreported>>

\* a JSON value: an array with its items, or a value that is no array
Array(items) == [isArray |-> TRUE, items |-> items]
NoArray == [isArray |-> FALSE, items |-> <<>>]

\* the angles arguments of set_pose: a pose, a pose beyond every limit, a short
\* array, and an argument that is no array
PoseInputs ==
    { Array(<<45, 20, -30, 0, 0, 90>>), Array(<<200, -200, 200, -200, 200, -200>>),
      Array(<<10, 20, 30>>), NoArray }

\* POST /api/objects (v2): the array of the body replaces armState.objects
PostObjectsV2(body) ==
    /\ version = "v2"
    /\ ToolsWorkload
    /\ IF "objects" \in DOMAIN body
       THEN /\ armState' = [armState EXCEPT !.objects = body.objects]
            /\ persisted' = armState'
       ELSE UNCHANGED <<armState, persisted>>
    /\ reply' = [success |-> TRUE]
    /\ broadcast' = <<>>
    /\ UNCHANGED <<version, ik, uiClients, pendingScreenshots, timers, calls, nextUUID,
                   seenIds, currentTask, motionCompleteResolve, attachmentResolve,
                   unreported>>

\* executeTool, case 'set_pose'
SetPose(angles) ==
    /\ version = "v2"
    /\ ToolsWorkload
    /\ IF ~angles.isArray \/ Len(angles.items) # 6
       THEN /\ reply' = [success |-> FALSE, error |-> "Must provide array of 6 angles"]
            /\ broadcast' = <<>>
            /\ UNCHANGED <<armState, persisted>>
       ELSE /\ armState' = [armState EXCEPT
                    !.jointTargets = [i \in 1..6 |-> Clamp(i, angles.items[i])]]
            /\ persisted' = armState'
            /\ broadcast' = <<[type |-> "set_pose", angles |-> armState'.jointTargets]>>
            /\ reply' = [success |-> TRUE, jointTargets |-> armState'.jointTargets]
    /\ UNCHANGED <<version, ik, uiClients, pendingScreenshots, timers, calls, nextUUID,
                   seenIds, currentTask, motionCompleteResolve, attachmentResolve,
                   unreported>>

\* the browser tabs that may open the UI
Browsers == {"tab"}

\* GET /api/events: the response joins uiClients
Connect(client) ==
    /\ version = "v2"
    /\ ScreenshotWorkload
    /\ client \notin uiClients
    /\ uiClients' = uiClients \cup {client}
    /\ UNCHANGED <<version, ik, armState, persisted, calls, nextUUID, seenIds, currentTask,
                   motionCompleteResolve, attachmentResolve, unreported,
                   pendingScreenshots, timers, reply, broadcast>>

\* the 'close' event of an SSE request: the response leaves uiClients
Disconnect(client) ==
    /\ version = "v2"
    /\ ScreenshotWorkload
    /\ client \in uiClients
    /\ uiClients' = uiClients \ {client}
    /\ UNCHANGED <<version, ik, armState, persisted, calls, nextUUID, seenIds, currentTask,
                   motionCompleteResolve, attachmentResolve, unreported,
                   pendingScreenshots, timers, reply, broadcast>>

\* what tools/call take_screenshot answers when the promise is rejected
Rejected(message) ==
    [kind |-> "result", type |-> "text", text |-> [success |-> FALSE, error |-> message]]

\* what tools/call take_screenshot answers when the promise is resolved
Resolved(imageData) == [kind |-> "result", type |-> "image", data |-> imageData]

\* tools/call take_screenshot up to its await: requestScreenshot rejects at
\* once without a UI client, else arms the timeout and registers the entry
RequestScreenshot(c) ==
    /\ version = "v2"
    /\ ScreenshotWorkload
    /\ MayArrive(c)
    /\ IF uiClients = {}
       THEN /\ calls' = [calls EXCEPT ![c] =
                    [IdleCall EXCEPT !.pc = "returned", !.name = "take_screenshot",
                                     !.response = Rejected("No browser UI connected")]]
            /\ UNCHANGED <<nextUUID, pendingScreenshots, timers>>
       ELSE /\ calls' = [calls EXCEPT ![c] =
                    [IdleCall EXCEPT !.pc = "capturing", !.name = "take_screenshot",
                                     !.commandId = nextUUID]]
            /\ nextUUID' = nextUUID + 1
            /\ pendingScreenshots' = pendingScreenshots \cup {nextUUID}
            /\ timers' = timers \cup {nextUUID}
    /\ UNCHANGED <<version, ik, armState, persisted, seenIds, currentTask,
                   motionCompleteResolve, attachmentResolve, unreported,
                   uiClients, reply, broadcast>>

\* pending.resolve / pending.reject: the call that awaits the promise of the
\* request goes on with the outcome; a promise that is settled stays as it is
Settle(requestId, response) ==
    [c \in Calls |->
        IF calls[c].commandId = requestId /\ calls[c].pc = "capturing"
        THEN [calls[c] EXCEPT !.pc = "returned", !.response = response]
        ELSE calls[c]]

\* the bodies of POST /api/screenshot: an image or an error, under the id of a
\* request of the run (pending, settled or not yet made) or under an unknown id
ScreenshotBodies ==
    { [requestId |-> i, imageData |-> "png"] : i \in Calls \cup {UnknownId} }
        \cup { [requestId |-> i, error |-> "capture failed"] : i \in Calls \cup {UnknownId} }

\* POST /api/screenshot that neither clears the timeout nor deletes the entry
PostScreenshotKeepsEntry(body) ==
    /\ version = "v2"
    /\ ScreenshotWorkload
    /\ IF body.requestId \notin pendingScreenshots
       THEN /\ reply' = [status |-> 404, error |-> "No pending screenshot request"]
            /\ UNCHANGED <<calls, pendingScreenshots, timers>>
       ELSE /\ calls' = Settle(body.requestId,
                               IF "error" \in DOMAIN body THEN Rejected(body.error)
                               ELSE Resolved(body.imageData))
            /\ reply' = [status |-> 200, success |-> TRUE]
            /\ UNCHANGED <<pendingScreenshots, timers>>
    /\ broadcast' = <<>>
    /\ UNCHANGED <<version, ik, armState, persisted, nextUUID, seenIds, currentTask,
                   motionCompleteResolve, attachmentResolve, unreported, uiClients>>

\* POST /api/screenshot
PostScreenshot(body) ==
    /\ version = "v2"
    /\ ScreenshotWorkload
    /\ IF body.requestId \notin pendingScreenshots
       THEN /\ reply' = [status |-> 404, error |-> "No pending screenshot request"]
            /\ UNCHANGED <<calls, pendingScreenshots, timers>>
       ELSE /\ timers' = timers \ {body.requestId}
            /\ pendingScreenshots' = pendingScreenshots \ {body.requestId}
            /\ calls' = Settle(body.requestId,
                               IF "error" \in DOMAIN body THEN Rejected(body.error)
                               ELSE Resolved(body.imageData))
            /\ reply' = [status |-> 200, success |-> TRUE]
    /\ broadcast' = <<>>
    /\ UNCHANGED <<version, ik, armState, persisted, nextUUID, seenIds, currentTask,
                   motionCompleteResolve, attachmentResolve, unreported, uiClients>>

\* the setTimeout callback of requestScreenshot, 10 s after the request
ScreenshotTimeout(requestId) ==
    /\ version = "v2"
    /\ ScreenshotWorkload
    /\ requestId \in timers
    /\ timers' = timers \ {requestId}
    /\ pendingScreenshots' = pendingScreenshots \ {requestId}
    /\ calls' = Settle(requestId, Rejected("Screenshot timeout"))
    /\ UNCHANGED <<version, ik, armState, persisted, nextUUID, seenIds, currentTask,
                   motionCompleteResolve, attachmentResolve, unreported,
                   uiClients, reply, broadcast>>

(***************************************************************************)
(* The IK solver of the plan (src/unnamed/part_000:106-137).  Lengths are  *)
(* in millimetres and angles in whole degrees; a cosine is a number of     *)
(* ten-thousandths.  Math.sqrt, Math.acos and Math.atan2 are computed to   *)
(* that precision.                                                         *)
(***************************************************************************)
\* the arm configuration
baseHeight == 150
L1 == 350
L2 == 300
L3 == 350

\* what an operation on numbers gives when it has no value: Math.acos of an
\* argument outside [-1, 1], and every sum or negation of a NaN
NaN == 99999

\* the unit of a cosine
One == 10000

\* 10000 * cos(a degrees) for a = 0..90, by index a + 1
cosTable ==
    << 10000, 9998, 9994, 9986, 9976, 9962, 9945, 9925, 9903, 9877,
       9848, 9816, 9781, 9744, 9703, 9659, 9613, 9563, 9511, 9455,
       9397, 9336, 9272, 9205, 9135, 9063, 8988, 8910, 8829, 8746,
       8660, 8572, 8480, 8387, 8290, 8192, 8090, 7986, 7880, 7771,
       7660, 7547, 7431, 7314, 7193, 7071, 6947, 6820, 6691, 6561,
       6428, 6293, 6157, 6018, 5878, 5736, 5592, 5446, 5299, 5150,
       5000, 4848, 4695, 4540, 4384, 4226, 4067, 3907, 3746, 3584,
       3420, 3256, 3090, 2924, 2756, 2588, 2419, 2250, 2079, 1908,
       1736, 1564, 1392, 1219, 1045, 872, 698, 523, 349, 175,
       0 >>

cosDeg(a) == IF a <= 90 THEN cosTable[a + 1] ELSE -cosTable[181 - a]

Abs(n) == IF n < 0 THEN -n ELSE n

\* the integer part of the square root of n, searched between lo and hi
RECURSIVE SqrtBetween(_, _, _)
SqrtBetween(n, lo, hi) ==
    IF lo = hi THEN lo
    ELSE LET mid == (lo + hi + 1) \div 2
         IN  IF mid * mid <= n THEN SqrtBetween(n, mid, hi) ELSE SqrtBetween(n, lo, mid - 1)

\* Math.sqrt of a number of square millimetres, in tenths of a millimetre
Sqrt10(n) == SqrtBetween(n * 100, 0, 46340)

\* Math.acos of q ten-thousandths, in degrees: the angle whose cosine is
\* nearest to q
acosDeg(q) ==
    IF q > One \/ q < -One THEN NaN
    ELSE Cardinality({b \in 1..180 : cosDeg(b - 1) + cosDeg(b) > 2 * q})

\* Math.atan2(y, x) in degrees, for y and x in tenths of a millimetre and
\* hyp the length of (x, y); the angle of the first quadrant comes from the
\* smaller of the two ratios
atan2Deg(y, x, hyp) ==
    IF hyp = 0 THEN 0
    ELSE LET t == IF Abs(y) <= Abs(x)
                  THEN 90 - acosDeg((Abs(y) * One) \div hyp)
                  ELSE acosDeg((Abs(x) * One) \div hyp)
         IN  IF x >= 0 THEN (IF y >= 0 THEN t ELSE -t)
             ELSE (IF y >= 0 THEN 180 - t ELSE t - 180)

\* sums and negations of numbers that may be NaN
Plus(a, b) == IF a = NaN \/ b = NaN THEN NaN ELSE a + b
Neg(a) == IF a = NaN THEN NaN ELSE -a

\* solveIK(targetPos): null when the target is too far, else the six joint
\* angles in degrees.  d > L1 + L2 is decided on the squares; a d of 0 makes
\* the argument of beta's acos infinite (or 0/0), which gives NaN
solveIK(targetPos) ==
    LET r2 == targetPos.x * targetPos.x + targetPos.z * targetPos.z
        r == Sqrt10(r2)
        theta0 == atan2Deg(targetPos.x * 10, targetPos.z * 10, r)
        h == targetPos.y - baseHeight - L3
        d2 == r2 + h * h
        d == Sqrt10(d2)
        cos_theta2 == ((d2 - L1 * L1 - L2 * L2) * One) \div (2 * L1 * L2)
        theta2 == Neg(acosDeg(cos_theta2))
        alpha == atan2Deg(h * 10, r, d)
        beta == IF d = 0 THEN NaN
                ELSE acosDeg(((L1 * L1 + d2 - L2 * L2) * (One \div 10))
                                \div ((2 * L1 * d) \div 100))
        theta1 == Plus(Plus(alpha, beta), -90)
        theta3 == 0
        theta4 == Neg(Plus(theta1, theta2))
        theta5 == Neg(theta0)
    IN  IF d2 > (L1 + L2) * (L1 + L2) THEN NULL
        ELSE <<theta0, theta1, theta2, theta3, theta4, theta5>>

(***************************************************************************)
(* The solver on its own: a run solves one target.                         *)
(***************************************************************************)
\* the coordinates of the targets: 0 and plus or minus 45 k^2 millimetres
IKMax == 3
Coordinates == UNION {{45 * k * k, -45 * k * k} : k \in 0..IKMax}

\* not solved yet
Unsolved == [unsolved |-> TRUE]

\* the targets, around the point above the base at which d is 0
Targets ==
    {Pos(x, baseHeight + L3 + y, z) : x \in Coordinates, y \in Coordinates, z \in Coordinates}

InitIK ==
    /\ version = "ik"
    /\ armState = defaultState
    /\ persisted = defaultState
    /\ calls = [c \in Calls |-> IdleCall]
    /\ nextUUID = 1
    /\ seenIds = {}
    /\ currentTask = NULL
    /\ motionCompleteResolve = NoResolver
    /\ attachmentResolve = NoResolver
    /\ unreported = 0
    /\ ik \in {[targetPos |-> p, result |-> Unsolved] : p \in Targets}
    /\ uiClients = {}
    /\ pendingScreenshots = {}
    /\ timers = {}
    /\ reply = NULL
    /\ broadcast = <<>>

\* a call of solveIK
SolveIK ==
    /\ version = "ik"
    /\ ik.result = Unsolved
    /\ ik' = [ik EXCEPT !.result = solveIK(ik.targetPos)]
    /\ UNCHANGED <<version, lowLevel, armState, persisted, calls, nextUUID, seenIds,
                   currentTask, motionCompleteResolve, attachmentResolve, unreported>>

NextIK == SolveIK

IKSpec == InitIK /\ [][NextIK]_vars

(***************************************************************************)
(* The server-side task executor: executeTask and the task functions of    *)
(* the plan (src/unnamed/part_000), with the status handlers of the        *)
(* migration document's RobotState, which hold the two resolvers.          *)
(* Positions are in millimetres.                                           *)
(***************************************************************************)
\* the task types of executeTask's switch
TaskTypes == {"pick_object", "carry_to", "place_object", "dance", "reset_to_base"}

\* the tasks the modelled requests name, with their params
TaskRequests ==
    { [type |-> "pick_object",  params |-> [object_id |-> "cube1"]],
      [type |-> "pick_object",  params |-> [object_id |-> "nonexistent"]],
      [type |-> "carry_to",     params |-> Pos(0, 300, 0)],
      [type |-> "carry_to",     params |-> Pos(5000, 0, 0)],
      [type |-> "carry_to",     params |-> Pos(0, 500, 0)],
      [type |-> "place_object", params |-> [none |-> TRUE]],
      [type |-> "dance",        params |-> [duration_seconds |-> 7]],
      [type |-> "reset_to_base", params |-> [none |-> TRUE]] }

\* the requests of one run come from one workload: a run that dances, a run
\* that handles objects, a run that carries to points the arm cannot reach,
\* or a run that picks and resets
Workloads ==
    { {r \in TaskRequests : r.type = "dance"},
      {r \in TaskRequests : \/ r.type \in {"pick_object", "place_object"}
                             \/ r = [type |-> "carry_to", params |-> Pos(0, 300, 0)]},
      {r \in TaskRequests : r.type = "carry_to" /\ r.params # Pos(0, 300, 0)},
      {r \in TaskRequests : \/ r.type = "reset_to_base"
                             \/ (r.type = "pick_object" /\ r.params.object_id = "cube1")} }

SameWorkload(taskType, params) ==
    \E w \in Workloads :
        /\ [type |-> taskType, params |-> params] \in w
        /\ \A d \in Calls :
              calls[d].pc # "idle" => [type |-> calls[d].name, params |-> calls[d].params] \in w

\* executeDance: the choreography
danceFrames ==
    << <<0, 0, 0, 0, 0, 0>>,
       <<45, 20, -30, 0, 0, 90>>,
       <<-45, 20, -30, 0, 0, -90>>,
       <<0, 45, -90, 45, 30, 0>>,
       <<0, -20, 45, 0, -30, 180>>,
       <<90, 30, -60, 90, 0, 45>>,
       <<-90, 30, -60, -90, 0, -45>> >>

\* the messages sent to the browser
MoveCommand(position) == [type |-> "move_to", position |-> position]
MagnetCommand(enabled) == [type |-> "set_magnet", enabled |-> enabled]
PoseCommand(angles)    == [type |-> "set_pose", angles |-> angles]

\* executePickObject, step 3: the three waypoints
abovePos(obj) == Pos(obj.position.x, 250, obj.position.z)
pickPos(obj)  == Pos(obj.position.x, obj.position.y + 80, obj.position.z)
liftPos(obj)  == Pos(obj.position.x, 300, obj.position.z)

\* the commands of a whole pick, in the order of executePickObject's step 4
pickSequence(obj) ==
    << MoveCommand(abovePos(obj)), MoveCommand(pickPos(obj)), MagnetCommand(TRUE),
       MoveCommand(liftPos(obj)) >>

\* TrackedObject that falls back on the first object of the registry
TrackedObjectOrFirst(state, id) ==
    IF FindObject(state.objects, id) = 0 THEN state.objects[1]
    ELSE state.objects[FindObject(state.objects, id)]

\* the object of the registry with this id (null if none)
TrackedObject(state, id) ==
    IF FindObject(state.objects, id) = 0 THEN NULL
    ELSE state.objects[FindObject(state.objects, id)]

\* executePickObject's test of step 2
AlreadyHolding(state) == state.magnetOn /\ state.attachedObject # NoObject

\* Holding that takes the magnet for the held object
HoldingOrEngaged(state) == state.attachedObject # NoObject \/ ~state.magnetOn

\* the test of carry_to and place_object: an object is held
Holding(state) == state.attachedObject # NoObject

\* what a step of a task leaves behind: the call, the arm state and the two
\* resolvers
Outcome(call, state, motion, attachment) ==
    [call |-> call, state |-> state, motion |-> motion, attachment |-> attachment]

\* the task function returns this result
Returns(call, result, state, motion, attachment) ==
    Outcome([call EXCEPT !.pc = "returned", !.at = "", !.response = result],
            state, motion, attachment)

\* moveTo(position) up to its await: the motion command goes to the browser
\* and the call registers for the motion-complete report
MoveTo(c, call, step, position, state, attachment) ==
    Outcome([call EXCEPT !.at = "moveTo", !.step = step,
                         !.issued = Append(@, MoveCommand(position))],
            state, c, attachment)

\* executePickObject, from the end of its step call.step to its next await.
\* setMagnet(true) switches the magnet on and tells the browser;
\* waitForAttachment(objectId, 2000) looks at the state before it blocks
executePickObject(c, call, state, motion, attachment) ==
    LET objectId == call.params.object_id
        obj == TrackedObject(state, objectId)
        engaged == [state EXCEPT !.magnetOn = TRUE]
        sent == [call EXCEPT !.issued = Append(@, MagnetCommand(TRUE))]
    IN  CASE call.step = 0 ->
               IF obj = NULL
               THEN Returns(call, [success |-> FALSE, error_code |-> "OBJECT_NOT_FOUND"],
                            state, motion, attachment)
               ELSE IF AlreadyHolding(state)
               THEN Returns(call, [success |-> FALSE,
                                   error_code |-> "ALREADY_HOLDING_OBJECT"],
                            state, motion, attachment)
               ELSE MoveTo(c, call, 1, abovePos(obj), state, attachment)
          [] call.step = 1 -> MoveTo(c, call, 2, pickPos(obj), state, attachment)
          [] call.step = 2 ->
               IF engaged.attachedObject = objectId
               THEN MoveTo(c, sent, 4, liftPos(obj), engaged, attachment)
               ELSE Outcome([sent EXCEPT !.at = "waitForAttachment", !.step = 3],
                            engaged, motion, c)
          [] call.step = 3 -> MoveTo(c, call, 4, liftPos(obj), state, attachment)
          [] call.step = 4 ->
               Returns(call, [success |-> TRUE, message |-> <<"Picked up", objectId>>],
                       state, motion, attachment)

\* executeCarryTo: an object must be held and the solver must not fail for
\* the point; one motion, awaited
executeCarryTo(c, call, state, motion, attachment) ==
    CASE call.step = 0 ->
           IF ~Holding(state)
           THEN Returns(call, [success |-> FALSE, error_code |-> "NO_OBJECT_HELD"],
                        state, motion, attachment)
           ELSE IF solveIK(call.params) = NULL
           THEN Returns(call, [success |-> FALSE, error_code |-> "OUT_OF_REACH"],
                        state, motion, attachment)
           ELSE MoveTo(c, call, 1, call.params, state, attachment)
      [] call.step = 1 ->
           Returns(call, [success |-> TRUE, message |-> <<"Carried to", call.params>>],
                   state, motion, attachment)

\* executePlaceObject without a position: an object must be held; the magnet
\* is switched off, and after the settle delay nothing is held
executePlaceObject(c, call, state, motion, attachment) ==
    CASE call.step = 0 ->
           IF ~Holding(state)
           THEN Returns(call, [success |-> FALSE, error_code |-> "NO_OBJECT_HELD"],
                        state, motion, attachment)
           ELSE Outcome([call EXCEPT !.at = "sleep", !.step = 1,
                                     !.issued = Append(@, MagnetCommand(FALSE))],
                        [state EXCEPT !.magnetOn = FALSE], motion, attachment)
      [] call.step = 1 ->
           Returns(call, [success |-> TRUE, message |-> <<"Placed">>],
                   [state EXCEPT !.attachedObject = NoObject], motion, attachment)

\* executeDance, from the end of the wait of frame call.step to its next
\* await: the next frame and its sleep, or the home pose and its wait
executeDance(c, call, state, motion, attachment) ==
    IF call.step < Len(danceFrames)
    THEN Outcome([call EXCEPT !.at = "sleep", !.step = @ + 1,
                              !.issued = Append(@, PoseCommand(danceFrames[call.step + 1]))],
                 state, motion, attachment)
    ELSE IF call.step = Len(danceFrames)
    THEN Outcome([call EXCEPT !.at = "waitForMotionComplete", !.step = @ + 1,
                              !.issued = Append(@, PoseCommand(<<0, 0, 0, 0, 0, 0>>))],
                 state, c, attachment)
    ELSE Returns(call, [success |-> TRUE,
                        message |-> <<"Dance completed", call.params.duration_seconds>>],
                 state, motion, attachment)

\* the home pose
homePose == <<0, 0, 0, 0, 0, 0>>

\* executeReset: the magnet is switched off if it is on, which clears the
\* held object; then the arm is sent to the home pose and the task waits for
\* the motion-complete report
executeReset(c, call, state, motion, attachment) ==
    LET released == IF state.magnetOn
                    THEN [state EXCEPT !.magnetOn = FALSE, !.attachedObject = NoObject]
                    ELSE state
        sent == IF state.magnetOn
                THEN Append(call.issued, MagnetCommand(FALSE)) ELSE call.issued
    IN  IF call.step = 0
        THEN Outcome([call EXCEPT !.at = "waitForMotionComplete", !.step = 1,
                                  !.issued = Append(sent, PoseCommand(homePose))],
                     [released EXCEPT !.jointTargets = homePose], c, attachment)
        ELSE Returns(call, [success |-> TRUE, message |-> <<"Reset to base">>],
                     state, motion, attachment)

\* the switch of executeTask: the task function runs on to its next await
TaskStep(c, call, state, motion, attachment) ==
    CASE call.name = "pick_object"  -> executePickObject(c, call, state, motion, attachment)
      [] call.name = "carry_to"     -> executeCarryTo(c, call, state, motion, attachment)
      [] call.name = "place_object" -> executePlaceObject(c, call, state, motion, attachment)
      [] call.name = "dance"        -> executeDance(c, call, state, motion, attachment)
      [] call.name = "reset_to_base" -> executeReset(c, call, state, motion, attachment)

\* the motion commands among those the call has sent in this step
MotionsSent(before, after) ==
    Cardinality({i \in Len(before.issued) + 1 .. Len(after.issued) :
                    after.issued[i].type # "set_magnet"})

\* the outcome of a step of call c becomes the state; a changed arm state is
\* written through, and the finally block of executeTask frees the slot when
\* the task function has returned.  reports is the number of reports the
\* step has consumed
Applies(c, r, task, reports) ==
    /\ calls' = [calls EXCEPT ![c] = r.call]
    /\ unreported' = unreported - reports + MotionsSent(calls[c], r.call)
    /\ armState' = r.state
    /\ persisted' = IF r.state = armState THEN persisted ELSE r.state
    /\ motionCompleteResolve' = r.motion
    /\ attachmentResolve' = r.attachment
    /\ currentTask' = IF r.call.pc = "running" THEN task ELSE NULL

\* the call is suspended in a wait for the motion-complete report
AwaitsMotion(call) ==
    call.pc = "running" /\ call.at \in {"moveTo", "waitForMotionComplete"}

\* the call is suspended in waitForAttachment
AwaitsAttachment(call) == call.pc = "running" /\ call.at = "waitForAttachment"

\* executeTask up to the first await of the task function (or to its return,
\* when the task function returns without awaiting anything)
ExecuteTask(c, taskType, params) ==
    /\ version = "plan"
    /\ MayArrive(c)
    /\ taskType \in TaskTypes
    /\ SameWorkload(taskType, params)
    /\ Applies(c, TaskStep(c, [IdleCall EXCEPT !.pc = "running", !.commandId = nextUUID,
                                               !.name = taskType, !.params = params],
                           armState, motionCompleteResolve, attachmentResolve),
               [id |-> nextUUID, type |-> taskType, status |-> "running"], 0)
    /\ nextUUID' = nextUUID + 1
    /\ UNCHANGED <<version, ik, lowLevel, seenIds>>

\* the tasks that have sent a motion command and have not seen its wait end
InMotion ==
    {c \in Calls : \/ AwaitsMotion(calls[c])
                   \/ calls[c].pc = "running" /\ calls[c].name = "dance"
                                              /\ calls[c].at = "sleep"}

\* the browser has a report to send; a late report is one on a command whose
\* wait has ended, so that more reports are due than tasks are in motion
MayReport(late) ==
    /\ unreported > 0
    /\ late => unreported > Cardinality(InMotion)

\* handleMotionStatus that settles every wait for the motion-complete report
HandleMotionStatusResolvesAll(complete, late) ==
    /\ version = "plan"
    /\ MayReport(late)
    /\ complete
    /\ calls' = [c \in Calls |->
            IF AwaitsMotion(calls[c]) THEN [calls[c] EXCEPT !.at = "sleep"]
            ELSE calls[c]]
    /\ motionCompleteResolve' = NoResolver
    /\ unreported' = unreported - 1
    /\ UNCHANGED <<version, ik, lowLevel, armState, persisted, nextUUID, seenIds, currentTask,
                   attachmentResolve>>

\* POST /api/motion-status {complete}: the browser reports that the motion a
\* command started is complete (once per command), or that it is not.  The
\* handler calls the registered resolver and forgets it; the task that
\* resolver belongs to runs on to its next await.  Without a resolver the
\* report leaves nothing behind
HandleMotionStatus(complete, late) ==
    /\ version = "plan"
    /\ MayReport(late)
    /\ IF complete
       THEN IF motionCompleteResolve # NoResolver
               /\ AwaitsMotion(calls[motionCompleteResolve])
            THEN Applies(motionCompleteResolve,
                         TaskStep(motionCompleteResolve, calls[motionCompleteResolve],
                                  armState, NoResolver, attachmentResolve),
                         currentTask, 1)
            ELSE /\ motionCompleteResolve' = NoResolver
                 /\ unreported' = unreported - 1
                 /\ UNCHANGED <<armState, persisted, calls, currentTask,
                                attachmentResolve>>
       ELSE UNCHANGED <<armState, persisted, calls, currentTask,
                        motionCompleteResolve, attachmentResolve, unreported>>
    /\ UNCHANGED <<version, ik, lowLevel, nextUUID, seenIds>>

\* the arm state after an attachment report
Attachment(state, objectId, attached) ==
    IF attached THEN [state EXCEPT !.attachedObject = objectId]
    ELSE IF state.attachedObject = objectId
         THEN [state EXCEPT !.attachedObject = NoObject]
         ELSE state

\* POST /api/attachment-status {objectId, attached}: the state is updated and
\* saved; with attached, the registered resolver is called with objectId and
\* forgotten, and the task waiting for that object runs on to its next await
HandleAttachmentStatus(objectId, attached) ==
    /\ version = "plan"
    /\ IF attached /\ attachmentResolve # NoResolver
       THEN IF /\ AwaitsAttachment(calls[attachmentResolve])
               /\ calls[attachmentResolve].params.object_id = objectId
            THEN Applies(attachmentResolve,
                         TaskStep(attachmentResolve, calls[attachmentResolve],
                                  Attachment(armState, objectId, attached),
                                  motionCompleteResolve, NoResolver),
                         currentTask, 0)
            ELSE /\ armState' = Attachment(armState, objectId, attached)
                 /\ persisted' = armState'
                 /\ attachmentResolve' = NoResolver
                 /\ UNCHANGED <<calls, currentTask, motionCompleteResolve, unreported>>
       ELSE /\ armState' = Attachment(armState, objectId, attached)
            /\ persisted' = armState'
            /\ UNCHANGED <<calls, currentTask, motionCompleteResolve,
                           attachmentResolve, unreported>>
    /\ UNCHANGED <<version, ik, lowLevel, nextUUID, seenIds>>

\* a wait for the attachment whose timeout fails the pick
AttachmentTimeoutFails(c) ==
    /\ version = "plan"
    /\ AwaitsAttachment(calls[c])
    /\ Applies(c, Returns(calls[c], [success |-> FALSE, error_code |-> "PICK_FAILED"],
                          armState, motionCompleteResolve, attachmentResolve),
               currentTask, 0)
    /\ UNCHANGED <<version, ik, lowLevel, nextUUID, seenIds>>

\* waitForAttachment's 2000 ms pass without the report: the task goes on
AttachmentTimeout(c) ==
    /\ version = "plan"
    /\ AwaitsAttachment(calls[c])
    /\ Applies(c, TaskStep(c, calls[c], armState, motionCompleteResolve,
                           attachmentResolve),
               currentTask, 0)
    /\ UNCHANGED <<version, ik, lowLevel, nextUUID, seenIds>>

\* a sleep ends: executeDance goes on to waitForMotionComplete(), which
\* registers the resolver; executePlaceObject goes on after its settle delay
SleepEnds(c) ==
    /\ version = "plan"
    /\ calls[c].pc = "running"
    /\ calls[c].at = "sleep"
    /\ IF calls[c].name = "dance"
       THEN /\ calls' = [calls EXCEPT ![c].at = "waitForMotionComplete"]
            /\ motionCompleteResolve' = c
            /\ UNCHANGED <<armState, persisted, currentTask, attachmentResolve,
                           unreported>>
       ELSE Applies(c, TaskStep(c, calls[c], armState, motionCompleteResolve,
                                attachmentResolve),
                    currentTask, 0)
    /\ UNCHANGED <<version, ik, lowLevel, nextUUID, seenIds>>

\* what is left of a call whose task function threw
Thrown(call) == [call EXCEPT !.pc = "threw", !.at = "", !.step = 0, !.issued = <<>>]

\* a wait for the motion-complete report whose timeout lets the task go on
TaskThrowsGoesOn(c) ==
    /\ version = "plan"
    /\ AwaitsMotion(calls[c])
    /\ Applies(c, TaskStep(c, calls[c], armState, motionCompleteResolve,
                           attachmentResolve),
               currentTask, 0)
    /\ UNCHANGED <<version, ik, lowLevel, nextUUID, seenIds>>

\* TaskThrows without the finally block
TaskThrowsKeepsSlot(c) ==
    /\ version = "plan"
    /\ AwaitsMotion(calls[c])
    /\ calls' = [calls EXCEPT ![c] = Thrown(@)]
    /\ UNCHANGED <<version, ik, lowLevel, armState, persisted, nextUUID, seenIds, currentTask,
                   motionCompleteResolve, attachmentResolve, unreported>>

\* the wait for the motion-complete report times out, which is fatal for the
\* task: the finally block frees the slot and the exception leaves
\* executeTask, which has no catch
TaskThrows(c) ==
    /\ version = "plan"
    /\ AwaitsMotion(calls[c])
    /\ currentTask' = NULL
    /\ calls' = [calls EXCEPT ![c] = Thrown(@)]
    /\ UNCHANGED <<version, ik, lowLevel, armState, persisted, nextUUID, seenIds,
                   motionCompleteResolve, attachmentResolve, unreported>>

Next ==
    \/ \E c \in Calls, name \in ToolInputs : McpToolsCall(c, name)
    \/ \E c \in Calls : Poll(c)
    \/ \E c \in Calls : Timeout(c)
    \/ GetState
    \/ \E body \in CommandResultBodies : PostCommandResult(body)
    \/ \E body \in ObjectsBodies : PostObjects(body)
    \/ PostMotionStatus
    \/ \E objectId \in AttachmentIds, attached \in BOOLEAN :
            PostAttachmentStatus(objectId, attached)
    \/ \E message \in McpMessages : handleMcpMessage(message)
    \/ \E name \in RestToolNames : PostTool(name)
    \/ \E joint \in JointInputs, angle \in AngleInputs : MoveJoint(joint, angle)
    \/ \E enabled \in BOOLEAN : SetMagnet(enabled)
    \/ ResetArm
    \/ \E angles \in PoseInputs : SetPose(angles)
    \/ \E body \in ObjectsBodies : PostObjectsV2(body)
    \/ \E client \in Browsers : Connect(client)
    \/ \E client \in Browsers : Disconnect(client)
    \/ \E c \in Calls : RequestScreenshot(c)
    \/ \E body \in ScreenshotBodies : PostScreenshot(body)
    \/ \E requestId \in Calls : ScreenshotTimeout(requestId)
    \/ \E c \in Calls, request \in TaskRequests :
            ExecuteTask(c, request.type, request.params)
    \/ \E complete, late \in BOOLEAN : HandleMotionStatus(complete, late)
    \/ \E objectId \in AttachmentIds, attached \in BOOLEAN :
            HandleAttachmentStatus(objectId, attached)
    \/ \E c \in Calls : AttachmentTimeout(c)
    \/ \E c \in Calls : SleepEnds(c)
    \/ \E c \in Calls : TaskThrows(c)

Spec == Init /\ [][Next]_vars

\* the process is started again: const armState = loadState() reads back the
\* last snapshot saveState() wrote, and the calls that were waiting in the old
\* process are gone with it
Restart ==
    /\ version = "v3"
    /\ armState' = persisted
    /\ calls' = [c \in Calls |->
            IF calls[c].pc = "waiting" THEN [calls[c] EXCEPT !.pc = "lost"]
            ELSE calls[c]]
    /\ UNCHANGED <<version, ik, lowLevel, persisted, nextUUID, seenIds, currentTask,
                   motionCompleteResolve, attachmentResolve, unreported>>

\* the server with restarts of its process
NextRestart ==
    \/ Next
    \/ Restart

RestartSpec == Init /\ [][NextRestart]_vars

\* a step of the polling loop of some call
LoopStep == \E c \in Calls : Poll(c) \/ Timeout(c)

\* the scheduling of the event loop: timers fire and time passes, so the
\* polling loops keep taking steps
FairSpec == Spec /\ WF_vars(LoopStep)

(***************************************************************************)
(* Properties.                                                             *)
(***************************************************************************)
\* the calls inside executeViaCommandQueue
Waiting == {c \in Calls : calls[c].pc = "waiting"}

\* the task slot: pendingCommand in v3, currentTask in the plan
SlotIdle(state, task) == state.pendingCommand = NULL /\ task = NULL

\* the call ends in this step (a task function that awaits nothing starts and
\* ends in one step)
Ends(c) ==
    /\ calls[c].pc \in {"idle", "waiting", "running"}
    /\ calls'[c].pc \in {"returned", "threw"}

\* C1: a result posted under an id that is not the id a call is waiting on is
\* discarded: a call returns either the timeout failure or a result that
\* carries the call's own command id, and no result is returned to two calls.
C1_OnlyOwnResultReturned ==
    version = "v3" =>
        /\ \A c \in Calls : calls[c].pc = "returned" =>
              \/ calls[c].response = ToolResponse(TimeoutResult)
              \/ /\ calls[c].response.kind = "result"
                 /\ calls[c].response.text.commandId = calls[c].commandId
        /\ \A c, d \in Calls :
              (c # d /\ calls[c].pc # "idle" /\ calls[d].pc # "idle")
                  => calls[c].commandId # calls[d].commandId

\* C1 witness: a result under an id nobody waits on is in the result slot
\* while a call that has polled still waits, or has given up, without it.
C1_Witness ==
    /\ version = "v3"
    /\ armState.commandResult # NULL
    /\ \A c \in Waiting : armState.commandResult.commandId # calls[c].commandId
    /\ \E c \in Waiting : calls[c].polled
    /\ \E d \in Calls : TimedOut(d)

\* C2: while a task call is running, a second request is rejected and the
\* rejection leaves the arm state unchanged.
C2_SecondRequestRejected ==
    [][\A c \in Calls :
          (calls[c].pc = "idle" /\ calls'[c].pc # "idle"
              /\ \E d \in Calls : calls[d].pc \in {"waiting", "running"})
          => (calls'[c].pc = "rejected" /\ armState' = armState
                                        /\ currentTask' = currentTask)]_vars

\* C3: at most one command is outstanding: never two calls waiting at once.
C3_AtMostOneWaiting ==
    Cardinality({c \in Calls : calls[c].pc \in {"waiting", "running"}}) <= 1

\* C4: a call that gives up without a matching result returns a failure and
\* leaves the pending-command slot empty; a later command can then complete
\* (the witness).
C4_TimeoutFailsAndClears ==
    [][\A c \in Calls :
          (version = "v3" /\ Ends(c)
              /\ (~ResultMatches(c) \/ calls'[c].response = ToolResponse(TimeoutResult)))
          => /\ armState'.pendingCommand = NULL
             /\ calls'[c].pc = "returned"
             /\ calls'[c].response.kind = "result"
             /\ calls'[c].response.text.success = FALSE]_vars

\* C4 witness: a call that arrived after a timeout was picked up by the
\* browser and has returned its own successful result.
C4_Witness ==
    \E c \in Calls :
        /\ calls[c].afterTimeout
        /\ calls[c].pc = "returned"
        /\ calls[c].commandId \in seenIds
        /\ calls[c].response.text.success = TRUE
        /\ calls[c].response.text.commandId = calls[c].commandId

\* C5: every call of executeViaCommandQueue eventually returns: whatever the
\* browser does, a moment at which no call is waiting always comes again (a
\* waiting call leaves that state only by returning).
C5_EveryCallReturns == []<>(\A c \in Calls : calls[c].pc # "waiting")

\* C5 witness: a call has returned although the browser never read or
\* answered any command.
C5_Witness ==
    /\ seenIds = {}
    /\ armState.commandResult = NULL
    /\ \E c \in Calls : TimedOut(c)

\* the error codes of the taxonomy
ErrorCodes ==
    {"OBJECT_NOT_FOUND", "ALREADY_HOLDING_OBJECT", "NO_OBJECT_HELD", "OUT_OF_REACH",
     "MOTION_TIMEOUT", "COMMAND_TIMEOUT"}

\* a failure value with an error code of the taxonomy and a message
WellFormedFailure(result) ==
    /\ "error_code" \in DOMAIN result
    /\ result.error_code \in ErrorCodes
    /\ "message" \in DOMAIN result

\* C6: every failure of a task call reaches the caller as a result value with
\* success=false, an error code of the taxonomy (COMMAND_TIMEOUT for a command
\* timeout) and a message, never as a raw exception or a JSON-RPC error.
C6_FailuresAreTaskResults ==
    \A c \in Calls :
        (version = "v3" /\ calls[c].pc = "returned") =>
            /\ calls[c].response.kind = "result"
            /\ calls[c].response.text.success = FALSE
                  => WellFormedFailure(calls[c].response.text)
            /\ TimedOut(c) => calls[c].response.text.error_code = "COMMAND_TIMEOUT"

\* C7: the slot goes Idle -> Running -> Idle: a call that starts takes the
\* slot, and whenever a call ends, by a result, a failure or an exception,
\* the slot is idle again.
C7_SlotIdleAfterTaskEnds ==
    [][\A c \in Calls :
          /\ Ends(c) => SlotIdle(armState', currentTask')
          /\ (calls[c].pc = "idle" /\ calls'[c].pc \in {"waiting", "running"})
                => ~SlotIdle(armState', currentTask')]_vars

\* C7 witness: a task has ended by an exception, another by a result, and the
\* slot is idle.
C7_Witness ==
    /\ SlotIdle(armState, currentTask)
    /\ \E c \in Calls : calls[c].pc = "threw"
    /\ \E c \in Calls : calls[c].pc = "returned"

\* C8: jointTargets always has 6 entries, each within its joint's limits.
C8_JointTargetsWithinLimits ==
    /\ Len(armState.jointTargets) = 6
    /\ \A i \in 1..6 :
          /\ jointLimits[i][1] <= armState.jointTargets[i]
          /\ armState.jointTargets[i] <= jointLimits[i][2]

\* C9: a held object implies the magnet is on.
C9_HeldImpliesMagnetOn ==
    armState.attachedObject # NoObject => armState.magnetOn

\* a step of one of the three status reports
StatusReport ==
    \/ PostMotionStatus
    \/ \E body \in ObjectsBodies : PostObjects(body)
    \/ \E objectId \in AttachmentIds, attached \in BOOLEAN :
            PostAttachmentStatus(objectId, attached)

\* C10 as stated: a status report changes neither jointTargets, magnetOn nor
\* attachedObject, and neither starts nor cancels a task.
C10_ReportsLeaveHeldObject ==
    [][StatusReport =>
          /\ armState'.jointTargets = armState.jointTargets
          /\ armState'.magnetOn = armState.magnetOn
          /\ armState'.attachedObject = armState.attachedObject
          /\ armState'.pendingCommand = armState.pendingCommand
          /\ armState'.commandResult = armState.commandResult
          /\ UNCHANGED <<calls, currentTask>>]_vars

\* C10 amended: a motion report changes nothing, an object report changes
\* only the tracked objects, an attachment report changes only
\* attachedObject; none changes jointTargets or magnetOn, starts or cancels a
\* task.
C10_ReportsChangeOnlyTheirField ==
    [][/\ PostMotionStatus => UNCHANGED <<armState, calls, currentTask>>
       /\ (\E body \in ObjectsBodies : PostObjects(body))
             => /\ armState' = [armState EXCEPT !.objects = armState'.objects]
                /\ UNCHANGED <<calls, currentTask>>
       /\ (\E objectId \in AttachmentIds, attached \in BOOLEAN :
                PostAttachmentStatus(objectId, attached))
             => /\ armState' =
                     [armState EXCEPT !.attachedObject = armState'.attachedObject]
                /\ UNCHANGED <<calls, currentTask>>]_vars

\* C10 witness: only status reports have acted (no command was issued, no
\* result posted), and they have moved an object and attached one.
C10_Witness ==
    /\ version = "v3"
    /\ nextUUID = 1
    /\ armState.commandResult = NULL
    /\ armState.objects # defaultState.objects
    /\ armState.attachedObject # NoObject

\* C11: a command result posted under a stale or unknown commandId (one no
\* call is waiting on) has no effect on the arm: jointTargets, magnetOn and
\* attachedObject are the same after the post as before it.
C11_StaleResultHasNoEffect ==
    [][\A body \in CommandResultBodies :
          (/\ PostCommandResult(body)
           /\ "commandId" \in DOMAIN body
           /\ \A c \in Waiting : calls[c].commandId # body.commandId)
          => /\ armState'.jointTargets = armState.jointTargets
             /\ armState'.magnetOn = armState.magnetOn
             /\ armState'.attachedObject = armState.attachedObject]_vars

\* a step of one of the handlers of the motion-complete and attachment reports
SignalReport ==
    \/ \E complete, late \in BOOLEAN : HandleMotionStatus(complete, late)
    \/ \E objectId \in AttachmentIds, attached \in BOOLEAN :
            HandleAttachmentStatus(objectId, attached)
    \/ PostMotionStatus
    \/ \E objectId \in AttachmentIds, attached \in BOOLEAN :
            PostAttachmentStatus(objectId, attached)

\* the call is suspended in a wait
Suspended(call) == AwaitsMotion(call) \/ AwaitsAttachment(call) \/ call.pc = "waiting"

\* C12: a status report resolves at most one outstanding waiter: in the step
\* of a motion-complete or an attachment report, at most one suspended call
\* moves on.
C12_ReportResolvesAtMostOne ==
    [][SignalReport =>
          Cardinality({c \in Calls : Suspended(calls[c]) /\ calls'[c] # calls[c]}) <= 1]_vars

\* C12 witness: two picks have been waiting for the motion-complete report at
\* once, and a report has moved the later one on while the earlier one still
\* waits for its first move.
C12_Witness ==
    \E c, d \in Calls :
        /\ c < d
        /\ AwaitsMotion(calls[c]) /\ calls[c].step = 1
        /\ calls[d].name = "pick_object" /\ calls[d].pc = "running" /\ calls[d].step >= 2

\* C13: no missed wake-up: a report that arrives while no waiter is
\* registered is not lost to the next wait it satisfies.  So a task that has
\* registered its wait for the motion-complete report is never left blocked
\* when the browser has no report left to send (the report on its motion
\* has already arrived), and a task that has registered its wait for the
\* attachment of an object is never left blocked while the state already
\* records that object as attached.
C13_NoMissedWakeup ==
    \A c \in Calls :
        /\ (AwaitsMotion(calls[c]) /\ motionCompleteResolve = c) => unreported > 0
        /\ (AwaitsAttachment(calls[c]) /\ attachmentResolve = c)
              => armState.attachedObject # calls[c].params.object_id

\* C14: a status report that arrives after the wait it relates to has timed
\* out unblocks nothing: when a motion wait has timed out and the browser's
\* report on that motion arrives late, no suspended call moves on in the
\* step of that report.
C14_LateReportUnblocksNothing ==
    [][(/\ \E d \in Calls : calls[d].pc = "threw"
        /\ \E complete \in BOOLEAN : HandleMotionStatus(complete, TRUE))
          => \A c \in Calls : Suspended(calls[c]) => calls'[c] = calls[c]]_vars

\* C15: write-through persistence: whenever an operation has changed the arm
\* state (command issue, result consumption, timeout, /api/command-result,
\* /api/objects, /api/attachment-status, move_joint, set_magnet, set_pose,
\* reset_arm), the persisted snapshot equals the in-memory state when the
\* operation is over (writes that fail are not part of the model).
C15_WriteThrough ==
    [][armState' # armState => persisted' = armState']_vars

\* C15 witness: a command has been issued, a result posted, an object moved
\* and an attachment reported, and the snapshot equals the state.
C15_Witness ==
    /\ version = "v3"
    /\ armState.pendingCommand # NULL
    /\ armState.commandResult # NULL
    /\ armState.objects # defaultState.objects
    /\ armState.attachedObject # NoObject
    /\ armState.jointTargets # defaultState.jointTargets
    /\ persisted = armState

\* the call starts in this step, as the task taskType of the task executor
Starts(c, taskType) ==
    /\ version = "plan"
    /\ calls[c].pc = "idle"
    /\ calls'[c].pc # "idle"
    /\ calls'[c].name = taskType

\* the ids of the tracked-object registry
TrackedIds(state) == {state.objects[i].id : i \in 1..Len(state.objects)}

\* the step sends no command to the browser and registers no wait
NothingIssued(c) ==
    /\ calls'[c].issued = <<>>
    /\ UNCHANGED <<motionCompleteResolve, attachmentResolve, unreported>>

\* C16: pick_object on an id that is not in the tracked-object registry
\* returns OBJECT_NOT_FOUND and leaves the arm state unchanged; no motion or
\* magnet command is issued.
C16_UnknownObjectNotFound ==
    [][\A c \in Calls :
          (/\ Starts(c, "pick_object")
           /\ calls'[c].params.object_id \notin TrackedIds(armState))
          => /\ calls'[c].pc = "returned"
             /\ calls'[c].response = [success |-> FALSE, error_code |-> "OBJECT_NOT_FOUND"]
             /\ armState' = armState
             /\ persisted' = persisted
             /\ NothingIssued(c)]_vars

\* C16 witness: a pick of an unknown id has returned OBJECT_NOT_FOUND while a
\* pick of a tracked object is on its way.
C16_Witness ==
    /\ version = "plan"
    /\ \E c \in Calls :
          /\ calls[c].name = "pick_object"
          /\ calls[c].params.object_id \notin TrackedIds(armState)
          /\ calls[c].pc = "returned"
          /\ calls[c].response = [success |-> FALSE, error_code |-> "OBJECT_NOT_FOUND"]
    /\ \E d \in Calls :
          /\ calls[d].name = "pick_object"
          /\ calls[d].pc = "running"
          /\ calls[d].issued # <<>>

\* C17: pick_object (of a tracked object) called while an object is held
\* (attachedObject non-null) returns ALREADY_HOLDING_OBJECT and leaves the
\* state unchanged.
C17_HoldingRejectsPick ==
    [][\A c \in Calls :
          (/\ Starts(c, "pick_object")
           /\ calls'[c].params.object_id \in TrackedIds(armState)
           /\ armState.attachedObject # NoObject)
          => /\ calls'[c].pc = "returned"
             /\ calls'[c].response =
                    [success |-> FALSE, error_code |-> "ALREADY_HOLDING_OBJECT"]
             /\ armState' = armState
             /\ NothingIssued(c)]_vars

\* C18: carry_to and place_object called while no object is held both return
\* NO_OBJECT_HELD.
C18_NothingHeldRejectsCarryAndPlace ==
    [][\A c \in Calls :
          (/\ Starts(c, "carry_to") \/ Starts(c, "place_object")
           /\ armState.attachedObject = NoObject)
          => /\ calls'[c].pc = "returned"
             /\ calls'[c].response = [success |-> FALSE, error_code |-> "NO_OBJECT_HELD"]]_vars

\* C18 witness: a carry_to and a place_object have both returned
\* NO_OBJECT_HELD, and nothing is held.
C18_Witness ==
    /\ version = "plan"
    /\ armState.attachedObject = NoObject
    /\ \E c, d \in Calls :
          /\ calls[c].name = "carry_to" /\ calls[d].name = "place_object"
          /\ calls[c].pc = "returned" /\ calls[d].pc = "returned"
          /\ calls[c].response = [success |-> FALSE, error_code |-> "NO_OBJECT_HELD"]
          /\ calls[d].response = [success |-> FALSE, error_code |-> "NO_OBJECT_HELD"]

\* the step is the arrival of a motion-complete report
MotionAcknowledged == \E late \in BOOLEAN : HandleMotionStatus(TRUE, late)

\* the step ends call c's wait for the attachment of its object: by the
\* report of that attachment or by the timeout of the wait
AttachmentWaitEnds(c) ==
    \/ AttachmentTimeout(c)
    \/ HandleAttachmentStatus(calls[c].params.object_id, TRUE)

C20_SuccessMeansHeld ==
    [][\A c \in Calls :
          (/\ version = "plan"
           /\ calls[c].pc = "running"
           /\ calls'[c].pc = "returned"
           /\ calls'[c].name = "pick_object"
           /\ calls'[c].response.success)
          => armState'.attachedObject = calls'[c].params.object_id]_vars

C22_ResetLeavesHomeState ==
    [][(\/ \E c \in Calls :
              /\ version = "plan"
              /\ calls[c].pc = "running"
              /\ calls'[c].pc = "returned"
              /\ calls'[c].name = "reset_to_base"
        \/ ResetArm)
       => /\ armState'.jointTargets = <<0, 0, 0, 0, 0, 0>>
          /\ ~armState'.magnetOn
          /\ armState'.attachedObject = NoObject]_vars

\* the poses a dance sends: the frames in the order of the list, then home
dancePoses == [i \in 1..Len(danceFrames) + 1 |->
                  IF i <= Len(danceFrames) THEN danceFrames[i] ELSE <<0, 0, 0, 0, 0, 0>>]

\* C23: dance issues its preset poses in the fixed list order, waits for the
\* motion-complete report between consecutive frames, and the last pose it
\* has issued when it ends is always the all-zero home pose.
C23_DanceInOrderEndsHome ==
    [][\A c \in Calls :
          (/\ version = "plan"
           /\ calls[c].name = "dance"
           /\ calls[c].pc = "running"
           /\ calls'[c] # calls[c])
          => LET before == calls[c].issued
                 after == calls'[c].issued
             IN  /\ calls'[c].pc = "running"
                    => /\ Len(after) <= Len(dancePoses)
                       /\ \A i \in 1..Len(after) : after[i] = PoseCommand(dancePoses[i])
                       /\ Len(after) > Len(before)
                             => /\ Len(after) = Len(before) + 1
                                /\ calls[c].at = "waitForMotionComplete"
                                /\ MotionAcknowledged
                 /\ calls'[c].pc # "running"
                    => before[Len(before)] = PoseCommand(<<0, 0, 0, 0, 0, 0>>)]_vars

\* the square of the planar reach distance d = hypot(r, h) of a target
ReachSquared(p) ==
    p.x * p.x + p.z * p.z + (p.y - baseHeight - L3) * (p.y - baseHeight - L3)

\* the solver has returned a joint vector
ReturnedVector == ik # NULL /\ ik.result # Unsolved /\ ik.result # NULL

\* C24: the IK solver fails (null) for every target whose reach distance d is
\* greater than L1 + L2 or smaller than |L1 - L2|; it never returns a joint
\* vector for such a target.
C24_UnreachableTargetsFail ==
    (/\ ik # NULL
     /\ ik.result # Unsolved
     /\ \/ ReachSquared(ik.targetPos) > (L1 + L2) * (L1 + L2)
        \/ ReachSquared(ik.targetPos) < (L1 - L2) * (L1 - L2))
    => ik.result = NULL

\* C25: every joint angle the IK solver returns lies within that joint's
\* configured range.
C25_SolutionWithinLimits ==
    (ReturnedVector /\ ReachSquared(ik.targetPos) >= (L1 - L2) * (L1 - L2))
    => \A i \in 1..6 : /\ ik.result[i] # NaN
                       /\ jointLimits[i][1] <= ik.result[i]
                       /\ ik.result[i] <= jointLimits[i][2]

\* C26: carry_to with a target the IK solver cannot reach (d greater than
\* L1 + L2 or smaller than |L1 - L2|), called while an object is held,
\* returns OUT_OF_REACH and issues no motion command; the arm state, the
\* joint targets with it, stays as it was.
C26_UnreachableCarryIssuesNothing ==
    [][\A c \in Calls :
          (/\ Starts(c, "carry_to")
           /\ armState.attachedObject # NoObject
           /\ \/ ReachSquared(calls'[c].params) > (L1 + L2) * (L1 + L2)
              \/ ReachSquared(calls'[c].params) < (L1 - L2) * (L1 - L2))
          => /\ calls'[c].pc = "returned"
             /\ calls'[c].response = [success |-> FALSE, error_code |-> "OUT_OF_REACH"]
             /\ NothingIssued(c)
             /\ armState' = armState]_vars

\* the ids of the registry, in its order
ObjectIds(state) == [i \in 1..Len(state.objects) |-> state.objects[i].id]

\* C28: the set of tracked object ids is unique and stable: an
\* object_positions report (POST /api/objects) only updates the position of
\* objects whose id is already known; it never adds, removes or duplicates an
\* object, and entries with unknown ids are ignored.
C28_ObjectIdsStable ==
    [][/\ ObjectIds(armState') = ObjectIds(armState)
       /\ Cardinality(TrackedIds(armState')) = Len(armState'.objects)]_vars

\* the entries discover_objects reports as attached
ReportedAttached == {i \in 1..Len(armState.objects) : discover_objects(armState)[i].attached}

\* C29: discover_objects reports attached = true for an object if and only
\* if its id equals the current attachedObject; therefore at most one object
\* is ever reported attached.
C29_AttachedIffHeld ==
    version \in {"v3", "plan"}
    => /\ \A i \in 1..Len(armState.objects) :
             (i \in ReportedAttached) <=> (armState.objects[i].id = armState.attachedObject)
       /\ Len(discover_objects(armState)) = Len(armState.objects)
       /\ Cardinality(ReportedAttached) <= 1

\* C29 witness: cube1 is held and discover_objects reports exactly cube1
\* attached.
C29_Witness ==
    /\ version = "v3"
    /\ armState.attachedObject = "cube1"
    /\ {discover_objects(armState)[i].id : i \in ReportedAttached} = {"cube1"}

\* C30: a task call's completion or timeout clears the pending-command slot
\* only when the slot still holds that call's own command: the end of one
\* call never removes the command issued by another.
C30_EndClearsOnlyOwnCommand ==
    [][\A c \in Calls :
          (/\ version = "v3"
           /\ calls[c].pc = "waiting"
           /\ calls'[c].pc = "returned"
           /\ armState.pendingCommand # NULL
           /\ armState.pendingCommand.id # calls[c].commandId)
          => armState'.pendingCommand = armState.pendingCommand]_vars

\* C31: a result carrying the id of the command a call is waiting on, once
\* posted while the call waits, is eventually returned by that call: the call
\* ends with a result and not with the timeout failure, whatever else is
\* posted in between. A call whose time ran out with its result still in the
\* slot (the result came after the loop's last look) is not held against the
\* claim.
C31_PostedResultIsReturned ==
    \A c \in Calls :
        (version = "v3" /\ calls[c].pc = "waiting" /\ ResultMatches(c))
            ~> \/ calls[c].pc = "returned" /\ ~TimedOut(c)
               \/ TimedOut(c) /\ ResultMatches(c)

\* C32: whenever pendingCommand is set, some call is waiting on the command
\* with exactly that id, also after the process was started again from the
\* persisted snapshot: the browser never reads an orphaned pending command.
C32_PendingCommandHasWaiter ==
    armState.pendingCommand # NULL =>
        \E c \in Calls : /\ calls[c].pc = "waiting"
                         /\ calls[c].commandId = armState.pendingCommand.id

\* C33: a waiting call that consumes its matching result returns exactly the
\* posted result, with the call's own commandId and all the posted fields, and
\* leaves pendingCommand and commandResult both null.
C33_ConsumedResultIsReturned ==
    [][\A c \in Calls :
          (/\ version = "v3"
           /\ calls[c].pc = "waiting"
           /\ calls'[c].pc = "returned"
           /\ calls'[c].response # ToolResponse(TimeoutResult))
          => /\ armState.commandResult # NULL
             /\ armState.commandResult.commandId = calls[c].commandId
             /\ calls'[c].response.type = "text"
             /\ calls'[c].response.text = armState.commandResult
             /\ armState'.pendingCommand = NULL
             /\ armState'.commandResult = NULL]_vars

\* C33 witness: a call has returned the posted pick result under its own id,
\* and both slots are empty.
C33_Witness ==
    \E c \in Calls :
        /\ version = "v3"
        /\ calls[c].pc = "returned"
        /\ calls[c].response.type = "text"
        /\ "commandId" \in DOMAIN calls[c].response.text
        /\ calls[c].response.text.commandId = calls[c].commandId
        /\ calls[c].response.text.message = "Picked up cube1"
        /\ armState.pendingCommand = NULL
        /\ armState.commandResult = NULL

\* C34: POST /api/command-result changes jointTargets, magnetOn and
\* attachedObject only for the fields the posted result carries, to the posted
\* values; a field the result does not carry keeps its value, and the tracked
\* objects and pendingCommand are never changed by the post.
C34_ResultSyncsOnlyPostedFields ==
    [][\A body \in CommandResultBodies :
          PostCommandResult(body)
          => /\ armState'.jointTargets =
                    IF "commandId" \in DOMAIN body /\ "jointTargets" \in DOMAIN body
                    THEN body.jointTargets ELSE armState.jointTargets
             /\ armState'.magnetOn =
                    IF "commandId" \in DOMAIN body /\ "magnetOn" \in DOMAIN body
                    THEN body.magnetOn ELSE armState.magnetOn
             /\ armState'.attachedObject =
                    IF "commandId" \in DOMAIN body /\ "attachedObject" \in DOMAIN body
                    THEN body.attachedObject ELSE armState.attachedObject
             /\ armState'.objects = armState.objects
             /\ armState'.pendingCommand = armState.pendingCommand]_vars

\* C34 witness: the last posted result carried magnetOn and attachedObject but
\* no jointTargets; the attachment fields are the posted ones while the joint
\* targets are those of an earlier result, and a command is still pending.
C34_Witness ==
    /\ version = "v3"
    /\ armState.commandResult # NULL
    /\ "jointTargets" \notin DOMAIN armState.commandResult
    /\ armState.magnetOn /\ armState.attachedObject = "cube1"
    /\ armState.jointTargets = <<200, 0, 0, 0, 0, 0>>
    /\ armState.pendingCommand # NULL

\* C35: an attachment report with attached = true sets attachedObject to the
\* reported objectId; with attached = false it clears attachedObject only when
\* that is the reported objectId, and a detach report for any other object
\* leaves attachedObject as it was.
C35_AttachmentReportSetsOrClearsOwn ==
    [][\A objectId \in AttachmentIds, attached \in BOOLEAN :
          (\/ PostAttachmentStatus(objectId, attached)
           \/ HandleAttachmentStatus(objectId, attached))
          => armState'.attachedObject =
                IF attached THEN objectId
                ELSE IF armState.attachedObject = objectId THEN NoObject
                ELSE armState.attachedObject]_vars

\* C35 witness: an object is recorded as attached by a report alone: no
\* command result was posted and the magnet was never switched on.
C35_Witness ==
    /\ version = "v3"
    /\ armState.attachedObject = "cube1"
    /\ armState.commandResult = NULL
    /\ ~armState.magnetOn

\* C36: in every reachable state attachedObject is null or the id of an object
\* of the tracked-object registry.
C36_AttachedObjectIsTracked ==
    armState.attachedObject = NoObject \/ armState.attachedObject \in TrackedIds(armState)

\* C37: only an MCP tools/call naming an async tool writes pendingCommand. A
\* tools/call of a read-only tool, of an unknown tool, without a tool name, a
\* message that is not JSON-RPC 2.0 and every REST POST /api/tools/:name leave
\* the whole arm state as it is, pendingCommand and commandResult included.
C37_OnlyAsyncToolCallsQueue ==
    [][/\ \A message \in McpMessages :
             handleMcpMessage(message)
             => /\ armState' = armState
                /\ persisted' = persisted
                /\ message.jsonrpc = "2.0" /\ message.name \in {"discover_objects",
                                                               "get_environment_info"}
                       => "result" \in DOMAIN McpReply(message)
                /\ message.jsonrpc # "2.0" \/ message.name \in {"fly", NoName}
                       => "error" \in DOMAIN McpReply(message)
       /\ \A name \in RestToolNames :
             PostTool(name) => armState' = armState /\ persisted' = persisted
       /\ armState'.pendingCommand \notin {NULL, armState.pendingCommand}
             => \E c \in Calls, name \in ASYNC_TOOLS : McpToolsCall(c, name)]_vars

\* C37 witness: a command is pending and an unconsumed result is stored, and
\* in this state a tools/call of discover_objects answers with the object list
\* (cube1 attached) while a REST call of pick_object is refused with 400.
C37_Witness ==
    /\ version = "v3"
    /\ armState.pendingCommand # NULL
    /\ armState.commandResult # NULL
    /\ ENABLED handleMcpMessage([jsonrpc |-> "2.0", method |-> "tools/call",
                                 name |-> "discover_objects"])
    /\ executeSyncTool("discover_objects").objects[1].attached
    /\ PostToolReply("pick_object").status = 400

\* C38: in the low-level tool set, move_joint with a joint index outside 0..5
\* and set_pose with an argument that is not an array of exactly 6 angles
\* return success = false, leave jointTargets as they are and broadcast no
\* command; a valid move_joint changes only the addressed joint, to the
\* requested angle clamped to the limits of that joint.
C38_InvalidToolArgumentsRefused ==
    [][/\ \A joint \in JointInputs, angle \in AngleInputs :
             MoveJoint(joint, angle)
             => IF joint \notin 0..5
                THEN /\ reply'.success = FALSE
                     /\ armState'.jointTargets = armState.jointTargets
                     /\ broadcast' = <<>>
                ELSE \A i \in 1..6 :
                        IF i # joint + 1
                        THEN armState'.jointTargets[i] = armState.jointTargets[i]
                        ELSE LET lo == jointLimits[i][1]
                                 hi == jointLimits[i][2]
                             IN  armState'.jointTargets[i] =
                                    IF angle < lo THEN lo
                                    ELSE IF angle > hi THEN hi ELSE angle
       /\ \A angles \in PoseInputs :
             (SetPose(angles) /\ (~angles.isArray \/ Len(angles.items) # 6))
             => /\ reply'.success = FALSE
                /\ armState'.jointTargets = armState.jointTargets
                /\ broadcast' = <<>>]_vars

\* C38 witness: joint 1 stands at its upper limit of 90 after a move_joint to
\* 200 degrees, the other joints are at 0, and the request that followed was
\* refused without a broadcast.
C38_Witness ==
    /\ version = "v2"
    /\ armState.jointTargets = <<0, 90, 0, 0, 0, 0>>
    /\ reply # NULL
    /\ reply.success = FALSE
    /\ broadcast = <<>>

\* C39: every screenshot request is settled exactly once: rejected at once
\* when no UI client is connected, or resolved or rejected by the first POST
\* /api/screenshot that carries its requestId, or rejected by its timeout.
\* Its entry is in pendingScreenshots exactly while it is unsettled, a settled
\* request never changes its outcome, and a response under an id that has no
\* entry (duplicate, late, unknown) is answered 404 and changes nothing.
C39_ScreenshotSettledOnce ==
    [][version = "v2" =>
        /\ \A c \in Calls :
              calls'[c].pc = "capturing" <=> calls'[c].commandId \in pendingScreenshots'
        /\ \A c \in Calls : calls[c].pc = "returned" => calls'[c] = calls[c]
        /\ \A c \in Calls :
              (calls[c].pc = "idle" /\ calls'[c].pc = "returned")
              => /\ uiClients = {}
                 /\ calls'[c].response = Rejected("No browser UI connected")
                 /\ pendingScreenshots' = pendingScreenshots
        /\ \A c \in Calls :
              (calls[c].pc = "capturing" /\ calls'[c].pc = "returned")
              => \/ /\ calls[c].commandId \in timers
                    /\ calls[c].commandId \notin timers'
                    /\ calls'[c].response = Rejected("Screenshot timeout")
                    /\ reply' = reply
                 \/ \E body \in ScreenshotBodies :
                       /\ body.requestId = calls[c].commandId
                       /\ PostScreenshot(body)
                       /\ reply'.status = 200
                       /\ calls'[c].response =
                             IF "error" \in DOMAIN body THEN Rejected("capture failed")
                             ELSE Resolved("png")
        /\ \A body \in ScreenshotBodies :
              (PostScreenshot(body) /\ body.requestId \notin pendingScreenshots)
              => /\ reply'.status = 404
                 /\ calls' = calls
                 /\ pendingScreenshots' = pendingScreenshots
                 /\ timers' = timers
                 /\ armState' = armState]_vars

\* C39 witness: one request was resolved with the image and one was rejected
\* by its timeout, no entry and no timer is left, and the last response that
\* came in was answered 404.
C39_Witness ==
    /\ version = "v2"
    /\ \E c, d \in Calls :
          /\ calls[c].pc = "returned" /\ calls[c].response = Resolved("png")
          /\ calls[d].pc = "returned"
          /\ calls[d].response = Rejected("Screenshot timeout")
    /\ pendingScreenshots = {}
    /\ timers = {}
    /\ reply # NULL
    /\ reply.status = 404

====
